---- MODULE Spec2Model ----
(***************************************************************************)
(* Model of marp-engine/marped.py: the include resolver (find_includes),   *)
(* the change router (FileWatcher.on_any_event), the observer thread       *)
(* (run_observer) and the supervisor (run_marp, run_app).                  *)
(*                                                                         *)
(* A path string is the sequence of its "/"-separated components; an       *)
(* absolute path starts with the component "/".  Python values keep their  *)
(* type: a str and a pathlib.Path are never equal, whatever they spell.    *)
(***************************************************************************)
EXTENDS Integers, Sequences, FiniteSets, TLC

VARIABLES
    fs,                     \* the filesystem: canonical location -> entry
    filename,               \* find_includes: its argument
    fi,                     \* find_includes: its locals
    fpc,                    \* find_includes: "loop" | "done"
    main_file_path,         \* FileWatcher: self.main_file_path
    main_file_resolved,     \* FileWatcher: self.main_file_resolved
    original_filenames,     \* FileWatcher: self.original_filenames
    resolved_filenames,     \* FileWatcher: self.resolved_filenames
    directories_to_watch,   \* FileWatcher: self.directories_to_watch
    last,                   \* the last call of on_any_event and what it did
    calls,                  \* on_any_event: the call each observer thread is in
    pending,                \* events the operating system has not delivered yet
    args,                   \* the command line: marp installed, preview, pack
    inputs_left,            \* run_app: input files not yet started
    apc,                    \* run_app: where it is
    exit_status,            \* the exit status of the program, once it ended
    output_exists,          \* the renderer's output file is there
    start_failed,           \* the renderer failed to start for this input file
    mpc,                    \* run_marp: where the main thread is
    stop_event,             \* run_marp: stop_event is set
    interrupted,            \* run_marp: KeyboardInterrupt was caught (line 183)
    result,                 \* run_marp: what the call returned
    proc,                   \* the renderer process and its return code
    opc,                    \* run_observer: where the observer thread is
    todo,                   \* run_observer: directories not yet subscribed
    observers,              \* run_observer: the observers it started
    oi                      \* run_observer: index of the loops of lines 150-154

findVars == <<filename, fi, fpc>>
tables == <<original_filenames, resolved_filenames, directories_to_watch>>
watcherVars == <<main_file_path, main_file_resolved, tables, last, calls,
                 pending>>
appVars == <<args, inputs_left, apc, exit_status, output_exists, start_failed>>
marpVars == <<mpc, stop_event, interrupted, result, proc>>
observerVars == <<opc, todo, observers, oi>>
supVars == <<appVars, marpVars, observerVars>>
vars == <<fs, findVars, watcherVars, supVars>>

----------------------------------------------------------------------------
(* Bounds *)

\* The longest path, in components, the operating system lets open() take
\* (PATH_MAX, scaled down): a longer one fails with ENAMETOOLONG.
PathMax == 5

----------------------------------------------------------------------------
(* Python values: str and pathlib.Path *)

Front(s) == SubSeq(s, 1, Len(s) - 1)
Last(s) == s[Len(s)]

RECURSIVE DropDots(_)
DropDots(c) ==
    IF c = <<>> THEN <<>>
    ELSE IF Head(c) = "." THEN DropDots(Tail(c))
    ELSE <<Head(c)>> \o DropDots(Tail(c))

\* None, an int, and the value of a call that has not returned
PyNone == [t |-> "NoneType"]
PyInt(n) == [t |-> "int", v |-> n]
NotReturned == [t |-> "not returned"]

\* a str value
Str(c) == [t |-> "str", c |-> c]
\* Path(x): pathlib drops the "." components and keeps the ".." ones
PathOf(c) == [t |-> "Path", c |-> DropDots(c)]
\* os.fspath(x) / str(x), as components
FsPath(x) == x.c

\* os.path.dirname(p)
Dirname(c) == IF c = <<>> THEN <<>> ELSE Front(c)
\* os.path.join(d, m): an absolute m replaces d
Join(d, m) == IF m # <<>> /\ m[1] = "/" THEN m ELSE d \o m
\* Path.parent
Parent(p) == [t |-> "Path", c |-> Dirname(p.c)]

----------------------------------------------------------------------------
(* The filesystem *)

Cwd == <<"/", "w">>
DECK == <<"/", "w", "deck.md">>
X    == <<"/", "w", "x.md">>
N    == <<"/", "w", "n.swp">>
A    == <<"/", "w", "a.md">>
B    == <<"/", "w", "s", "b.md">>
L    == <<"/", "w", "l.md">>
Locs == {DECK, A, B, L}

NoFile == [kind |-> "none"]
RegFile(inc, ok) == [kind |-> "file", inc |-> inc, ok |-> ok]
Link(to) == [kind |-> "link", to |-> to]

\* lexical walk from directory cur through the components rest
RECURSIVE Walk(_, _)
Walk(cur, rest) ==
    IF rest = <<>> THEN cur
    ELSE LET h == Head(rest) IN
         Walk(IF h = "." THEN cur
              ELSE IF h = ".." THEN (IF Len(cur) > 1 THEN Front(cur) ELSE cur)
              ELSE Append(cur, h),
              Tail(rest))

Absolute(c) ==
    IF c # <<>> /\ c[1] = "/" THEN Walk(<<"/">>, Tail(c)) ELSE Walk(Cwd, c)

\* Path(x).resolve(): absolute, "." and ".." removed, symlinks followed
Realpath(f, c) ==
    LET p == Absolute(c) IN
    IF p \in DOMAIN f /\ f[p].kind = "link" THEN f[p].to ELSE p

\* (mutant) the path is made absolute and its symlinks are not followed
Resolve_NoFollow(f, x) == [t |-> "Path", c |-> Absolute(FsPath(x))]

Resolve(f, x) == [t |-> "Path", c |-> Realpath(f, FsPath(x))]

\* open(x, 'r') succeeds
CanOpen(f, x) ==
    LET p == Realpath(f, FsPath(x)) IN
    /\ Len(FsPath(x)) <= PathMax
    /\ p \in DOMAIN f
    /\ f[p].kind = "file"
    /\ f[p].ok

\* re.findall(pattern, content): the include arguments, in order
Matches(f, x) == f[Realpath(f, FsPath(x))].inc

----------------------------------------------------------------------------
(* find_includes *)

FindStart(fname) ==
    [original_files |-> {}, resolved_files |-> {}, directories_to_watch |-> {},
     files_to_process |-> <<fname>>]

InSeq(x, s) == \E i \in 1..Len(s) : s[i] = x

\* (mutant) the include argument is taken as it is, not joined to the
\* directory of the including file
RECURSIVE PushIncludes_NoJoin(_, _, _, _)
PushIncludes_NoJoin(queue, original, current_file, matches) ==
    IF matches = <<>> THEN queue
    ELSE LET include_file == Str(Head(matches))
         IN PushIncludes_NoJoin(
                IF include_file \notin original /\ ~InSeq(include_file, queue)
                THEN Append(queue, include_file) ELSE queue,
                original, current_file, Tail(matches))

\* lines 54-59: the loop over the matches of current_file
RECURSIVE PushIncludes(_, _, _, _)
PushIncludes(queue, original, current_file, matches) ==
    IF matches = <<>> THEN queue
    ELSE LET include_file == Str(Join(Dirname(FsPath(current_file)), Head(matches)))
         IN PushIncludes(
                IF include_file \notin original /\ ~InSeq(include_file, queue)
                THEN Append(queue, include_file) ELSE queue,
                original, current_file, Tail(matches))

\* (mutant) a file that cannot be opened ends the traversal
FindStep_AbortOnError(f, st) ==
    LET current_file == Last(st.files_to_process)
        popped == Front(st.files_to_process)
    IN
    IF current_file \in st.original_files
    THEN [st EXCEPT !.files_to_process = popped]
    ELSE LET original == st.original_files \cup {current_file}
             resolved_path == Resolve(f, current_file)
         IN [original_files |-> original,
             resolved_files |-> st.resolved_files \cup {resolved_path},
             directories_to_watch |->
                 st.directories_to_watch \cup {Parent(resolved_path)},
             files_to_process |->
                 IF CanOpen(f, current_file)
                 THEN PushIncludes(popped, original, current_file,
                                   Matches(f, current_file))
                 ELSE <<>>]

\* lines 30-64: one iteration of the while loop
FindStep(f, st) ==
    LET current_file == Last(st.files_to_process)
        popped == Front(st.files_to_process)
    IN
    IF current_file \in st.original_files
    THEN [st EXCEPT !.files_to_process = popped]
    ELSE LET original == st.original_files \cup {current_file}
             resolved_path == Resolve(f, current_file)
         IN [original_files |-> original,
             resolved_files |-> st.resolved_files \cup {resolved_path},
             directories_to_watch |->
                 st.directories_to_watch \cup {Parent(resolved_path)},
             files_to_process |->
                 IF CanOpen(f, current_file)
                 THEN PushIncludes(popped, original, current_file,
                                   Matches(f, current_file))
                 ELSE popped]

\* lines 21-66: the whole call
RECURSIVE FindLoop(_, _)
FindLoop(f, st) ==
    IF st.files_to_process = <<>> THEN st ELSE FindLoop(f, FindStep(f, st))

FindIncludes(f, fname) ==
    LET st == FindLoop(f, FindStart(fname)) IN
    [original |-> st.original_files, resolved |-> st.resolved_files,
     dirs |-> st.directories_to_watch]

----------------------------------------------------------------------------
(* Filesystems the resolver is run on *)

\* include arguments found in deck.md and a.md (directory /w)
ArgsW == { <<"a.md">>, <<".", "a.md">>, <<"deck.md">>, <<".", "deck.md">>,
           <<"s", "b.md">>, <<"l.md">>, <<"/", "w", "l.md">>, <<"x.md">>,
           <<"n.swp">> }
\* include arguments found in s/b.md
ArgsS == { <<"..", "a.md">>, <<"..", "deck.md">>, <<"b.md">> }

IncDeck == {<<>>} \cup {<<x>> : x \in ArgsW \ {<<"deck.md">>, <<".", "deck.md">>}}
               \cup { << <<"a.md">>, y >> : y \in {<<".", "a.md">>, <<"s", "b.md">>, <<"l.md">>} }
               \cup { << <<"l.md">>, <<"s", "b.md">> >> }
IncA == {<<>>} \cup {<<x>> : x \in ArgsW \ {<<"a.md">>, <<".", "a.md">>,
                                           <<"/", "w", "l.md">>, <<"n.swp">>}}
IncB == {<<>>} \cup {<<x>> : x \in ArgsS}

\* deck.md is a regular file, or a symlink to a.md; l.md, when there, is a
\* symlink to s/b.md; a.md may be missing or unreadable
AllFileSystems ==
    { [p \in Locs |->
         CASE p = DECK -> d
           [] p = A    -> a
           [] p = B    -> RegFile(b, TRUE)
           [] p = L    -> l] :
      d \in {RegFile(i, TRUE) : i \in IncDeck} \cup {Link(A)},
      a \in {NoFile} \cup {RegFile(i, ok) : i \in IncA, ok \in BOOLEAN},
      b \in IncB,
      l \in {NoFile, Link(B)} }

\* the root document exists at start-up
FileSystems ==
    { f \in AllFileSystems : f[DECK].kind = "link" => f[A].kind = "file" /\ f[A].ok }

----------------------------------------------------------------------------
(* The resolver, one loop iteration at a time *)

NoEvent ==
    [handled |-> FALSE, src_path |-> <<>>, is_directory |-> FALSE,
     event_path |-> PathOf(<<>>), resolved_event_path |-> PathOf(<<>>),
     root_now |-> PathOf(<<>>), refreshed |-> FALSE, touches |-> 0]

\* the observer threads of the watched directories /w and /w/s: each observer
\* dispatches the events of its directory on a thread of its own (lines
\* 139-141)
Threads == {"w", "s"}

NoTables == [original |-> {}, resolved |-> {}, dirs |-> {}]

\* a thread outside on_any_event
NoCall ==
    [pc |-> "idle", event_path |-> PathOf(<<>>),
     resolved_event_path |-> PathOf(<<>>), found |-> NoTables,
     original_read |-> {}, resolved_then |-> {}, resolved_read |-> {},
     is_watched_file |-> FALSE]

WatcherIdle ==
    /\ main_file_path = PathOf(<<>>)
    /\ main_file_resolved = PathOf(<<>>)
    /\ original_filenames = {}
    /\ resolved_filenames = {}
    /\ directories_to_watch = {}
    /\ last = NoEvent
    /\ calls = [t \in Threads |-> NoCall]
    /\ pending = {}

SupIdle ==
    /\ args = [marp_installed |-> TRUE, preview |-> FALSE, pack |-> FALSE]
    /\ inputs_left = 0
    /\ apc = "idle"
    /\ exit_status = PyNone
    /\ output_exists = FALSE
    /\ start_failed = FALSE
    /\ mpc = "idle"
    /\ stop_event = FALSE
    /\ interrupted = FALSE
    /\ result = NotReturned
    /\ proc = [st |-> "none", returncode |-> PyNone]
    /\ opc = "idle"
    /\ todo = {}
    /\ observers = <<>>
    /\ oi = 0

FindIdle ==
    /\ filename = Str(<<>>)
    /\ fi = FindStart(filename)
    /\ fpc = "done"

\* the argument is a str at start-up (line 74) and a Path on a refresh
\* (line 108)
InitFind ==
    /\ fs \in FileSystems
    /\ filename \in {Str(<<"deck.md">>), PathOf(<<"deck.md">>)}
    /\ fi = FindStart(filename)
    /\ fpc = "loop"
    /\ WatcherIdle
    /\ SupIdle

FindIterate ==
    /\ fpc = "loop"
    /\ fi.files_to_process # <<>>
    /\ fi' = FindStep(fs, fi)
    /\ UNCHANGED <<fs, filename, fpc, watcherVars, supVars>>

FindReturn ==
    /\ fpc = "loop"
    /\ fi.files_to_process = <<>>
    /\ fpc' = "done"
    /\ UNCHANGED <<fs, filename, fi, watcherVars, supVars>>

NextFind == FindIterate \/ FindReturn

SpecFind == InitFind /\ [][NextFind]_vars /\ WF_vars(NextFind)

----------------------------------------------------------------------------
(* The include relation, for stating the resolver's claims *)

Range(s) == {s[i] : i \in 1..Len(s)}

\* the files a file names in its include directives, each spelled as line 56
\* spells it
Includes(f, x) ==
    IF CanOpen(f, x)
    THEN {Str(Join(Dirname(FsPath(x)), m)) : m \in Range(Matches(f, x))}
    ELSE {}

\* some chain of includes from x comes back to a file it went through
RECURSIVE HasCycle(_, _, _)
HasCycle(f, x, seen) ==
    LET r == Realpath(f, FsPath(x)) IN
    \/ r \in seen
    \/ \E y \in Includes(f, x) : HasCycle(f, y, seen \cup {r})

\* x and all it includes, directly or not (of an acyclic graph)
RECURSIVE Closure(_, _)
Closure(f, x) == {x} \cup UNION {Closure(f, y) : y \in Includes(f, x)}

\* A includes B and B includes A, A the root
TwoCycle(f, x) ==
    \E y \in Includes(f, x) :
        /\ Realpath(f, FsPath(y)) # Realpath(f, FsPath(x))
        /\ \E z \in Includes(f, y) : Realpath(f, FsPath(z)) = Realpath(f, FsPath(x))

\* how many times the traversal has taken up the file at location p
Visits(p) == Cardinality({x \in fi.original_files : Realpath(fs, FsPath(x)) = p})

C2_Pre ==
    /\ ~HasCycle(fs, filename, {})
    /\ \A x \in Closure(fs, filename) : CanOpen(fs, x)

C2_Result ==
    LET canon == {Resolve(fs, x) : x \in Closure(fs, filename)} IN
    /\ fi.resolved_files = canon
    /\ fi.directories_to_watch = {Parent(p) : p \in canon}

\* C2: on an acyclic include graph whose files are all readable find_includes
\* terminates, and it returns exactly the canonical paths of the root and of
\* everything the root includes, directly or not, and exactly their parent
\* directories.
C2_AcyclicClosure ==
    /\ [](C2_Pre /\ fpc = "done" => C2_Result)
    /\ [](C2_Pre => <>(fpc = "done"))

\* an acyclic graph with a branch, a chain and a symlink has been resolved
C2_Witness ==
    /\ C2_Pre
    /\ fpc = "done"
    /\ Cardinality(fi.resolved_files) >= 3
    /\ Cardinality(fi.directories_to_watch) >= 2

----------------------------------------------------------------------------
(* FileWatcher *)

\* file names ending in ".swp"
SwpNames == {"n.swp", "a.md.swp"}
\* src_path.endswith('.swp')
EndsWithSwp(c) == c # <<>> /\ Last(c) \in SwpNames

\* (mutant) only directory events are skipped
IsFiltered_DirectoryOnly(e) == e.is_directory

\* line 92: directory events and editor swap files are skipped
IsFiltered(e) == e.is_directory \/ EndsWithSwp(e.src_path)

\* line 104
IsMainFile(event_path, resolved_event_path) ==
    \/ event_path = main_file_path
    \/ resolved_event_path = main_file_resolved

\* lines 112-115
IsWatchedFile(event_path, resolved_event_path, original, resolved) ==
    \/ event_path \in original
    \/ resolved_event_path \in resolved

\* line 118: the event is dropped
IsSkipped(is_watched_file, resolved_event_path) ==
    \/ ~is_watched_file
    \/ resolved_event_path = main_file_resolved

\* line 131: main_file_path.touch(exist_ok=True) creates the file when it is
\* not there
Touch(f, path) ==
    LET p == Realpath(f, FsPath(path)) IN
    IF p \in DOMAIN f /\ f[p].kind = "none"
    THEN [f EXCEPT ![p] = RegFile(<<>>, TRUE)]
    ELSE f

\* lines 69-81: FileWatcher(main_file, ...), main_file a str.
\* (real_to_original_map is written on lines 81 and 109 and never read.)
FileWatcher(f, main_file) ==
    LET found == FindIncludes(f, main_file) IN
    [main_file_path |-> PathOf(FsPath(main_file)),
     main_file_resolved |-> Resolve(f, main_file),
     original_filenames |-> found.original,
     resolved_filenames |-> found.resolved,
     directories_to_watch |-> found.dirs]

NewFileWatcher(main_file) ==
    LET w == FileWatcher(fs, main_file) IN
    /\ main_file_path = w.main_file_path
    /\ main_file_resolved = w.main_file_resolved
    /\ original_filenames = w.original_filenames
    /\ resolved_filenames = w.resolved_filenames
    /\ directories_to_watch = w.directories_to_watch
    /\ last = NoEvent
    /\ calls = [t \in Threads |-> NoCall]
    /\ pending = {}

\* The paths an event may carry: an entry of a directory by its absolute
\* path, as the observers report it, a directory, or a path spelled as the
\* watcher has it in its tables.
Entries == Locs \cup {X, N, <<"/", "w", "a.md.swp">>, <<"/", "w", "s", "n.swp">>}
Directories == {<<"/", "w">>, <<"/", "w", "s">>}
EventPaths ==
    Entries \cup Directories \cup {FsPath(x) : x \in original_filenames}

Events == [src_path : EventPaths, is_directory : BOOLEAN]

\* (mutant) the tables are recomputed on every event that is not filtered
OnAnyEvent_AlwaysRefresh(event) ==
    LET event_path == PathOf(event.src_path)
        resolved_event_path == Resolve(fs, event_path)
        is_main == IsMainFile(event_path, resolved_event_path)
        found == FindIncludes(fs, main_file_path)
        is_watched_file == IsWatchedFile(event_path, resolved_event_path,
                                         found.original, found.resolved)
        seen == [handled |-> TRUE, src_path |-> event.src_path,
                 is_directory |-> event.is_directory,
                 event_path |-> event_path,
                 resolved_event_path |-> resolved_event_path,
                 root_now |-> Resolve(fs, main_file_path),
                 refreshed |-> FALSE, touches |-> 0]
    IN
    IF IsFiltered(event)
    THEN /\ last' = seen
         /\ UNCHANGED <<fs, tables>>
    ELSE /\ original_filenames' = found.original
         /\ resolved_filenames' = found.resolved
         /\ directories_to_watch' = found.dirs
         /\ IF IsSkipped(is_watched_file, resolved_event_path)
            THEN /\ last' = [seen EXCEPT !.refreshed = is_main]
                 /\ fs' = fs
            ELSE /\ last' = [seen EXCEPT !.refreshed = is_main, !.touches = 1]
                 /\ fs' = Touch(fs, main_file_path)

\* lines 87-125 (with 127-131): one call of on_any_event.  Path.resolve() is
\* not strict: it raises for no path of this filesystem, so the fallback of
\* lines 99-101 is not taken.
OnAnyEvent(event) ==
    LET event_path == PathOf(event.src_path)
        resolved_event_path == Resolve(fs, event_path)
        is_main == IsMainFile(event_path, resolved_event_path)
        found == IF is_main THEN FindIncludes(fs, main_file_path)
                 ELSE [original |-> original_filenames,
                       resolved |-> resolved_filenames,
                       dirs |-> directories_to_watch]
        is_watched_file == IsWatchedFile(event_path, resolved_event_path,
                                         found.original, found.resolved)
        seen == [handled |-> TRUE, src_path |-> event.src_path,
                 is_directory |-> event.is_directory,
                 event_path |-> event_path,
                 resolved_event_path |-> resolved_event_path,
                 root_now |-> Resolve(fs, main_file_path),
                 refreshed |-> FALSE, touches |-> 0]
    IN
    IF IsFiltered(event)
    THEN /\ last' = seen
         /\ UNCHANGED <<fs, tables>>
    ELSE /\ original_filenames' = found.original
         /\ resolved_filenames' = found.resolved
         /\ directories_to_watch' = found.dirs
         /\ IF IsSkipped(is_watched_file, resolved_event_path)
            THEN /\ last' = [seen EXCEPT !.refreshed = is_main]
                 /\ fs' = fs
            ELSE /\ last' = [seen EXCEPT !.refreshed = is_main, !.touches = 1]
                 /\ fs' = Touch(fs, main_file_path)

Deliver ==
    /\ \E event \in Events : OnAnyEvent(event)
    /\ UNCHANGED <<findVars, main_file_path, main_file_resolved, pending, calls,
                   supVars>>

\* An editor saves a file by writing a new one and renaming it over the old
\* name: a name that was a symlink is a regular file from then on.
ReplaceByRename ==
    /\ \E p \in Locs :
          /\ fs[p].kind = "link"
          /\ fs[fs[p].to].kind = "file"
          /\ fs' = [fs EXCEPT ![p] = fs[fs[p].to]]
    /\ UNCHANGED <<findVars, watcherVars, supVars>>

\* the filesystems the watcher is started on
WatchDeck == { <<>>, << <<"a.md">> >>, << <<"l.md">> >>, << <<"/", "w", "l.md">> >>,
               << <<"n.swp">> >>, << <<"a.md">>, <<"s", "b.md">> >> }
WatchA == { <<>>, << <<"s", "b.md">> >>, << <<"l.md">> >>, << <<"deck.md">> >> }
WatchB == { <<>>, << <<"..", "a.md">> >> }

WatchFileSystems ==
    { f \in FileSystems :
        /\ f[DECK].kind = "file" => f[DECK].inc \in WatchDeck
        /\ f[A].kind = "file" => f[A].inc \in WatchA /\ f[A].ok
        /\ f[B].inc \in WatchB }

\* run_app passes the document's bare name (line 238)
InitWatch ==
    /\ fs \in WatchFileSystems
    /\ FindIdle
    /\ SupIdle
    /\ NewFileWatcher(Str(<<"deck.md">>))

NextWatch == Deliver \/ ReplaceByRename

SpecWatch == InitWatch /\ [][NextWatch]_vars

----------------------------------------------------------------------------
(* The router's claims *)

\* the last event was handled and not one the filter drops
Routed == last.handled /\ ~(last.is_directory \/ EndsWithSwp(last.src_path))

\* the event's path is the root document's, in original or canonical form
\* (the canonical form stored at start-up, or the one the root has now)
RootEvent ==
    \/ last.event_path = main_file_path
    \/ last.resolved_event_path = main_file_resolved
    \/ last.resolved_event_path = last.root_now

\* the event's path is that of a watched file other than the root, in
\* original or canonical form
MatchesOriginal ==
    \E x \in original_filenames : PathOf(FsPath(x)) = last.event_path
MatchesCanonical == last.resolved_event_path \in resolved_filenames

\* C3 (as claimed): every event that is not filtered and whose path is the
\* root document's, in original or canonical form, makes the router recompute
\* its tables and never makes it touch the root.
C3_RootEventRefreshesOnly ==
    Routed /\ RootEvent => last.refreshed /\ last.touches = 0

\* C4 (as claimed): an event that is not filtered and matches a watched file
\* other than the root, in original or canonical form, touches the root
\* exactly once; one that matches neither the root nor a watched file
\* touches nothing and recomputes nothing.
C4_WatchedEventTouchesOnce ==
    Routed /\ ~RootEvent =>
        /\ ~last.refreshed
        /\ last.touches = (IF MatchesOriginal \/ MatchesCanonical THEN 1 ELSE 0)

\* x is spelled through a symlink whose target lies in another directory
ViaSymlink(x) ==
    LET p == Absolute(FsPath(x)) IN
    /\ p \in Locs
    /\ fs[p].kind = "link"
    /\ Dirname(fs[p].to) # Dirname(p)

\* the file at t is watched only through symlink spellings
OnlyViaSymlink(t) ==
    /\ \E x \in original_filenames : ViaSymlink(x) /\ Realpath(fs, FsPath(x)) = t
    /\ \A x \in original_filenames : Realpath(fs, FsPath(x)) = t => ViaSymlink(x)
    /\ [t |-> "Path", c |-> t] \notin {main_file_resolved, last.root_now}

\* C5: when a file other than the root is watched only through a symlink
\* whose target lies in another directory, the target's directory is among
\* the directories to watch, and an event that carries the target's resolved
\* path touches the root.
C5_SymlinkTargetWatched ==
    \A t \in Locs :
        OnlyViaSymlink(t) =>
            /\ [t |-> "Path", c |-> Dirname(t)] \in directories_to_watch
            /\ Routed /\ last.src_path = t => last.touches = 1

C5_Witness ==
    /\ OnlyViaSymlink(B)
    /\ Routed
    /\ last.src_path = B
    /\ last.touches = 1
    /\ [t |-> "Path", c |-> <<"/", "w", "s">>] \in directories_to_watch

\* C6: a directory event, or one whose path ends in ".swp", is ignored in
\* every state, whatever its directory and whatever else its path matches:
\* no recomputation, no touch, the tables as they were.
C6_FilteredIgnored ==
    [][ (last' # last /\ (last'.is_directory \/ EndsWithSwp(last'.src_path)))
            => /\ UNCHANGED <<fs, tables>>
               /\ ~last'.refreshed
               /\ last'.touches = 0 ]_vars

\* a swap-file event and a directory event whose paths are watched ones
C6_Witness ==
    /\ last.handled
    /\ last.resolved_event_path \in resolved_filenames
    /\ \/ EndsWithSwp(last.src_path) /\ ~last.is_directory
       \/ last.is_directory /\ last.resolved_event_path = main_file_resolved
    /\ ~last.refreshed
    /\ last.touches = 0

----------------------------------------------------------------------------
(* run_app, run_marp and run_observer *)

\* the input files of one command line, at most
MaxInputs == 2

ExitCodes == {0, 1}

\* a subscription is open from observer.start() until observer.join()
IsOpen(o) == o.st \in {"started", "stopped"}
OpenObservers == {i \in 1..Len(observers) : IsOpen(observers[i])}

\* lines 222-285 and 156-168: the next input file; run_marp is called and
\* builds its FileWatcher
CallRunMarp ==
    /\ apc = "loop"
    /\ inputs_left > 0
    /\ inputs_left' = inputs_left - 1
    /\ apc' = "run_marp"
    /\ LET w == FileWatcher(fs, Str(<<"deck.md">>)) IN
          /\ main_file_path' = w.main_file_path
          /\ main_file_resolved' = w.main_file_resolved
          /\ original_filenames' = w.original_filenames
          /\ resolved_filenames' = w.resolved_filenames
          /\ directories_to_watch' = w.directories_to_watch
    /\ mpc' = "popen"
    /\ stop_event' = FALSE
    /\ interrupted' = FALSE
    /\ result' = NotReturned
    /\ proc' = [st |-> "none", returncode |-> PyNone]
    /\ opc' = "idle"
    /\ todo' = {}
    /\ observers' = <<>>
    /\ oi' = 0
    /\ output_exists' = FALSE
    /\ start_failed' = FALSE
    /\ UNCHANGED <<fs, findVars, last, calls, pending, args, exit_status>>

\* line 171: subprocess.Popen(command) raises FileNotFoundError when the
\* binary is not there
Popen ==
    /\ mpc = "popen"
    /\ IF args.marp_installed
       THEN /\ proc' = [st |-> "running", returncode |-> PyNone]
            /\ mpc' = "thread"
            /\ UNCHANGED start_failed
       ELSE /\ mpc' = "raised"
            /\ start_failed' = TRUE
            /\ UNCHANGED proc
    /\ UNCHANGED <<fs, findVars, watcherVars, args, inputs_left, apc,
                   exit_status, output_exists, stop_event, interrupted, result,
                   observerVars>>

\* lines 174-178: the observer thread is started with the directories the
\* watcher has now
StartThread ==
    /\ mpc = "thread"
    /\ mpc' = "wait"
    /\ opc' = "setup"
    /\ todo' = directories_to_watch
    /\ UNCHANGED <<fs, findVars, watcherVars, appVars, stop_event, interrupted,
                   result, proc, observers, oi>>

\* line 182: process.wait() returns once the renderer has exited; what it
\* returns is dropped
WaitReturns ==
    /\ mpc = "wait"
    /\ proc.st = "exited"
    /\ mpc' = "finally"
    /\ UNCHANGED <<fs, findVars, watcherVars, appVars, stop_event, interrupted,
                   result, proc, observerVars>>

\* lines 183-186: the user interrupts the wait; terminate() sends SIGTERM and
\* does not wait
Interrupt ==
    /\ mpc = "wait"
    /\ stop_event' = TRUE
    /\ interrupted' = TRUE
    /\ proc' = IF proc.st = "running" THEN [proc EXCEPT !.st = "terminating"]
               ELSE proc
    /\ mpc' = "finally"
    /\ UNCHANGED <<fs, findVars, watcherVars, appVars, result, observerVars>>

\* line 188
FinallySet ==
    /\ mpc = "finally"
    /\ stop_event' = TRUE
    /\ mpc' = "join"
    /\ UNCHANGED <<fs, findVars, watcherVars, appVars, interrupted, result,
                   proc, observerVars>>

\* line 189: observer_thread.join() returns once the thread has ended, and
\* run_marp returns, with no return statement
JoinThread ==
    /\ mpc = "join"
    /\ opc \in {"done", "died"}
    /\ mpc' = "returned"
    /\ result' = PyNone
    /\ UNCHANGED <<fs, findVars, watcherVars, appVars, stop_event, interrupted,
                   proc, observerVars>>

\* the renderer exits on its own
RendererExits ==
    /\ proc.st = "running"
    /\ \E rc \in ExitCodes :
          /\ proc' = [st |-> "exited", returncode |-> PyInt(rc)]
          /\ output_exists' = (rc = 0)
    /\ UNCHANGED <<fs, findVars, watcherVars, args, inputs_left, apc,
                   exit_status, start_failed, mpc, stop_event, interrupted,
                   result, observerVars>>

\* the renderer ends some time after SIGTERM (returncode -15)
RendererTerminates ==
    /\ proc.st = "terminating"
    /\ proc' = [st |-> "exited", returncode |-> PyInt(-15)]
    /\ output_exists' \in BOOLEAN
    /\ UNCHANGED <<fs, findVars, watcherVars, args, inputs_left, apc,
                   exit_status, start_failed, mpc, stop_event, interrupted,
                   result, observerVars>>

\* lines 138-142: the next directory gets its observer
ObserverStart ==
    /\ opc = "setup"
    /\ \E d \in todo :
          /\ todo' = todo \ {d}
          /\ observers' = Append(observers, [dir |-> d, st |-> "started"])
    /\ UNCHANGED <<fs, findVars, watcherVars, appVars, marpVars, opc, oi>>

\* lines 140-141: schedule() or start() raises OSError; the exception ends
\* run_observer before its try statement
ObserverStartFails ==
    /\ opc = "setup"
    /\ todo # {}
    /\ opc' = "died"
    /\ UNCHANGED <<fs, findVars, watcherVars, appVars, marpVars, todo,
                   observers, oi>>

\* lines 146-147: every directory has its observer
SetupDone ==
    /\ opc = "setup"
    /\ todo = {}
    /\ opc' = "wait"
    /\ UNCHANGED <<fs, findVars, watcherVars, appVars, marpVars, todo,
                   observers, oi>>

\* (mutant) the wait loop is left only when a listener has delivered an event
ObserverWake_OnEvent ==
    /\ opc = "wait"
    /\ stop_event
    /\ last.handled
    /\ opc' = "stop"
    /\ oi' = 1
    /\ UNCHANGED <<fs, findVars, watcherVars, appVars, marpVars, todo,
                   observers>>

\* lines 146-148: the wait loop ends once stop_event is set
ObserverWake ==
    /\ opc = "wait"
    /\ stop_event
    /\ opc' = "stop"
    /\ oi' = 1
    /\ UNCHANGED <<fs, findVars, watcherVars, appVars, marpVars, todo,
                   observers>>

\* lines 150-151
ObserverStop ==
    /\ opc = "stop"
    /\ IF oi <= Len(observers)
       THEN /\ observers' = [observers EXCEPT ![oi].st = "stopped"]
            /\ oi' = oi + 1
            /\ UNCHANGED opc
       ELSE /\ opc' = "join"
            /\ oi' = 1
            /\ UNCHANGED observers
    /\ UNCHANGED <<fs, findVars, watcherVars, appVars, marpVars, todo>>

\* lines 153-154
ObserverJoin ==
    /\ opc = "join"
    /\ IF oi <= Len(observers)
       THEN /\ observers' = [observers EXCEPT ![oi].st = "joined"]
            /\ oi' = oi + 1
            /\ UNCHANGED opc
       ELSE /\ opc' = "done"
            /\ UNCHANGED <<observers, oi>>
    /\ UNCHANGED <<fs, findVars, watcherVars, appVars, marpVars, todo>>

\* lines 284-289: run_marp returned, or raised an Exception that is printed
\* and passed over
AfterRunMarp ==
    /\ apc = "run_marp"
    /\ mpc \in {"returned", "raised"}
    /\ apc' = "finally"
    /\ UNCHANGED <<fs, findVars, watcherVars, args, inputs_left, exit_status,
                   output_exists, start_failed, marpVars, observerVars>>

\* lines 291-295: in preview mode the output file is removed; os.remove
\* raises when it is not there, and nothing catches that
RemoveOutput ==
    /\ apc = "finally"
    /\ IF ~args.pack /\ args.preview
       THEN IF output_exists
            THEN /\ output_exists' = FALSE
                 /\ apc' = "post"
                 /\ UNCHANGED exit_status
            ELSE /\ apc' = "exited"
                 /\ exit_status' = PyInt(1)
                 /\ UNCHANGED output_exists
       ELSE /\ apc' = "post"
            /\ UNCHANGED <<output_exists, exit_status>>
    /\ UNCHANGED <<fs, findVars, watcherVars, args, inputs_left, start_failed,
                   marpVars, observerVars>>

\* lines 297-387: handout post-processing and packing of this input file;
\* exit(1) when monolith fails
PostProcess ==
    /\ apc = "post"
    /\ IF args.pack /\ output_exists
       THEN \/ /\ apc' = "loop"
               /\ output_exists' = FALSE
               /\ UNCHANGED exit_status
            \/ /\ apc' = "exited"
               /\ exit_status' = PyInt(1)
               /\ UNCHANGED output_exists
       ELSE /\ apc' = "loop"
            /\ UNCHANGED <<output_exists, exit_status>>
    /\ UNCHANGED <<fs, findVars, watcherVars, args, inputs_left, start_failed,
                   marpVars, observerVars>>

\* line 400: run_app returns after the last input file
AppEnds ==
    /\ apc = "loop"
    /\ inputs_left = 0
    /\ apc' = "exited"
    /\ exit_status' = PyInt(0)
    /\ UNCHANGED <<fs, findVars, watcherVars, args, inputs_left,
                   output_exists, start_failed, marpVars, observerVars>>

\* the filesystems the supervisor is run on: one or two directories to watch
SupFileSystems ==
    { f \in WatchFileSystems :
        /\ f[DECK].kind = "file"
        /\ f[DECK].inc \in { <<>>, << <<"a.md">>, <<"s", "b.md">> >> }
        /\ f[A] = RegFile(<<>>, TRUE)
        /\ f[B].inc = <<>>
        /\ f[L] = NoFile }

InitSup ==
    /\ fs \in SupFileSystems
    /\ FindIdle
    /\ WatcherIdle
    /\ args \in [marp_installed : BOOLEAN, preview : BOOLEAN, pack : BOOLEAN]
    /\ inputs_left \in 1..MaxInputs
    /\ apc = "loop"
    /\ exit_status = PyNone
    /\ output_exists = FALSE
    /\ start_failed = FALSE
    /\ mpc = "idle"
    /\ stop_event = FALSE
    /\ interrupted = FALSE
    /\ result = NotReturned
    /\ proc = [st |-> "none", returncode |-> PyNone]
    /\ opc = "idle"
    /\ todo = {}
    /\ observers = <<>>
    /\ oi = 0

NextSup ==
    \/ CallRunMarp \/ Popen \/ StartThread \/ WaitReturns \/ Interrupt
    \/ FinallySet \/ JoinThread \/ RendererExits \/ RendererTerminates
    \/ ObserverStart \/ ObserverStartFails \/ SetupDone \/ ObserverWake
    \/ ObserverStop \/ ObserverJoin
    \/ AfterRunMarp \/ RemoveOutput \/ PostProcess \/ AppEnds

SpecSup == InitSup /\ [][NextSup]_vars

----------------------------------------------------------------------------
(* The supervisor's claims *)

\* C7 (as claimed): on every exit path of run_marp, every subscription that
\* was opened has been stopped and joined by the time the run returns.
C7_NoSubscriptionLeftOpen ==
    mpc \in {"returned", "raised"} => OpenObservers = {}

\* C8 (as claimed): when run_marp returns after teardown (the observers
\* stopped and joined), the renderer is no longer running, after a renderer
\* exit and after a user interrupt alike.
C8_RendererStoppedOnReturn ==
    mpc = "returned" /\ opc = "done"
        => proc.st \notin {"running", "terminating"}

\* C9 (as claimed): when the renderer exits on its own, run_marp returns the
\* renderer's exit status to its caller.
C9_ExitStatusReturned ==
    mpc = "returned" /\ ~interrupted /\ proc.st = "exited"
        => result = proc.returncode

\* C10 (as claimed): when the renderer fails to start, the run ends with a
\* non-zero status; the failure is not passed over and followed by the
\* post-processing of this input file or by the next input file.
C10_StartFailureFatal ==
    start_failed =>
        /\ apc \in {"run_marp", "finally", "exited"}
        /\ apc = "exited" => exit_status # PyInt(0)

----------------------------------------------------------------------------
(* The lifecycle of one run of run_marp *)

\* Idle, Starting, Running, Stopping, Stopped, read off the main thread's
\* position in run_marp; a run that Popen's exception has left is over
Lifecycle ==
    CASE mpc = "idle" -> "Idle"
      [] mpc \in {"popen", "thread"} -> "Starting"
      [] mpc = "wait" -> "Running"
      [] mpc \in {"finally", "join"} -> "Stopping"
      [] mpc \in {"returned", "raised"} -> "Stopped"

Rank(l) ==
    CASE l = "Idle" -> 0 [] l = "Starting" -> 1 [] l = "Running" -> 2
      [] l = "Stopping" -> 3 [] l = "Stopped" -> 4

\* run_app calls run_marp for the next input file: another run begins
NewRun == apc = "loop" /\ apc' = "run_marp"

\* every observer that was started has been stopped and joined
AllListenersJoined ==
    \A i \in 1..Len(observers) : observers[i].st = "joined"

\* C11 (as claimed): within one run the lifecycle only moves forward through
\* Idle, Starting, Running, Stopping, Stopped, Stopping being entered from
\* Running; stop_event is set before the observer thread is joined; and
\* Stopped is reached, after Stopping, only when every directory listener has
\* been stopped and joined.
C11_LifecycleForward ==
    /\ [][ ~NewRun =>
              /\ Rank(Lifecycle') >= Rank(Lifecycle)
              /\ (Lifecycle' = "Stopping" /\ Lifecycle # "Stopping"
                      => Lifecycle = "Running") ]_vars
    /\ [](mpc \in {"join", "returned"} => stop_event)
    /\ [](mpc = "returned" => AllListenersJoined)

----------------------------------------------------------------------------
(* Cancellation *)

\* The main thread and the observer thread are scheduled fairly: a step of
\* either that stays possible is taken.  Nothing is assumed of the renderer,
\* of the user, or of the filesystem events.
ThreadFairness ==
    /\ WF_vars(FinallySet) /\ WF_vars(JoinThread) /\ WF_vars(WaitReturns)
    /\ WF_vars(ObserverStart) /\ WF_vars(SetupDone) /\ WF_vars(ObserverWake)
    /\ WF_vars(ObserverStop) /\ WF_vars(ObserverJoin)

SpecSupFair == SpecSup /\ ThreadFairness

----------------------------------------------------------------------------
(* on_any_event statement by statement, on the observers' threads *)

\* the directory whose observer runs thread t
ThreadDir(t) == IF t = "w" THEN <<"/", "w">> ELSE <<"/", "w", "s">>

\* what deck.md may be edited to include
RaceDeck == { <<>>, << <<"a.md">> >>, << <<"a.md">>, <<"s", "b.md">> >> }

\* lines 87-101: thread t takes an event of its directory; a filtered event
\* returns on line 93 and leaves nothing behind
BeginCall(t) ==
    /\ calls[t].pc = "idle"
    /\ \E event \in [src_path : {e \in Entries : Dirname(e) = ThreadDir(t)},
                      is_directory : BOOLEAN] :
          /\ ~IsFiltered(event)
          /\ calls' = [calls EXCEPT ![t] =
                 [NoCall EXCEPT !.pc = "main",
                                !.event_path = PathOf(event.src_path),
                                !.resolved_event_path =
                                    Resolve(fs, PathOf(event.src_path))]]
    /\ UNCHANGED <<fs, findVars, main_file_path, main_file_resolved, pending,
                   tables, last, supVars>>

\* lines 104-108: the test for the main file, and find_includes when it is
CheckMain(t) ==
    /\ calls[t].pc = "main"
    /\ calls' = [calls EXCEPT ![t] =
           IF IsMainFile(calls[t].event_path, calls[t].resolved_event_path)
           THEN [@ EXCEPT !.pc = "store_original",
                          !.found = FindIncludes(fs, main_file_path)]
           ELSE [@ EXCEPT !.pc = "read_original"]]
    /\ UNCHANGED <<fs, findVars, main_file_path, main_file_resolved, pending,
                   tables, last, supVars>>

\* line 108: the three attributes are assigned one after the other, left to
\* right
StoreOriginal(t) ==
    /\ calls[t].pc = "store_original"
    /\ original_filenames' = calls[t].found.original
    /\ calls' = [calls EXCEPT ![t].pc = "store_resolved"]
    /\ UNCHANGED <<fs, findVars, main_file_path, main_file_resolved, pending,
                   resolved_filenames, directories_to_watch, last, supVars>>

StoreResolved(t) ==
    /\ calls[t].pc = "store_resolved"
    /\ resolved_filenames' = calls[t].found.resolved
    /\ calls' = [calls EXCEPT ![t].pc = "store_directories"]
    /\ UNCHANGED <<fs, findVars, main_file_path, main_file_resolved, pending,
                   original_filenames, directories_to_watch, last, supVars>>

StoreDirectories(t) ==
    /\ calls[t].pc = "store_directories"
    /\ directories_to_watch' = calls[t].found.dirs
    /\ calls' = [calls EXCEPT ![t].pc = "read_original"]
    /\ UNCHANGED <<fs, findVars, main_file_path, main_file_resolved, pending,
                   original_filenames, resolved_filenames, last, supVars>>

\* the canonical table that belongs to the original table as it is now: the
\* one a thread between its first and its second assignment is about to store
ResolvedOfOriginal ==
    IF \E u \in Threads : calls[u].pc = "store_resolved"
    THEN calls[CHOOSE u \in Threads : calls[u].pc = "store_resolved"]
             .found.resolved
    ELSE resolved_filenames

\* line 113: the first operand of the "or" reads self.original_filenames
ReadOriginal(t) ==
    /\ calls[t].pc = "read_original"
    /\ calls' = [calls EXCEPT ![t] =
           IF calls[t].event_path \in original_filenames
           THEN [@ EXCEPT !.pc = "skip",
                          !.original_read = original_filenames,
                          !.resolved_then = ResolvedOfOriginal,
                          !.resolved_read = ResolvedOfOriginal,
                          !.is_watched_file = TRUE]
           ELSE [@ EXCEPT !.pc = "read_resolved",
                          !.original_read = original_filenames,
                          !.resolved_then = ResolvedOfOriginal]]
    /\ UNCHANGED <<fs, findVars, main_file_path, main_file_resolved, pending,
                   tables, last, supVars>>

\* line 114: the second operand reads self.resolved_filenames
ReadResolved(t) ==
    /\ calls[t].pc = "read_resolved"
    /\ calls' = [calls EXCEPT ![t] =
           [@ EXCEPT !.pc = "skip",
                     !.resolved_read = resolved_filenames,
                     !.is_watched_file =
                         calls[t].resolved_event_path \in resolved_filenames]]
    /\ UNCHANGED <<fs, findVars, main_file_path, main_file_resolved, pending,
                   tables, last, supVars>>

\* lines 118-125 and 131: the event is dropped, or the main file is touched
SkipOrTouch(t) ==
    /\ calls[t].pc = "skip"
    /\ fs' = IF IsSkipped(calls[t].is_watched_file, calls[t].resolved_event_path)
             THEN fs ELSE Touch(fs, main_file_path)
    /\ calls' = [calls EXCEPT ![t] = NoCall]
    /\ UNCHANGED <<findVars, main_file_path, main_file_resolved, pending,
                   tables, last, supVars>>

\* line 131: touch() raises (PermissionError: the root is not the user's to
\* touch).  Nothing in on_any_event catches it; it leaves the handler and
\* ends the dispatching thread of the observer that delivered the event.
TouchFails(t) ==
    /\ calls[t].pc = "skip"
    /\ ~IsSkipped(calls[t].is_watched_file, calls[t].resolved_event_path)
    /\ calls' = [calls EXCEPT ![t].pc = "dead"]
    /\ UNCHANGED <<fs, findVars, main_file_path, main_file_resolved, pending,
                   tables, last, supVars>>

\* the user edits the include directives of deck.md
EditRoot ==
    /\ fs[DECK].kind = "file"
    /\ \E i \in RaceDeck \ {fs[DECK].inc} :
          fs' = [fs EXCEPT ![DECK] = RegFile(i, TRUE)]
    /\ UNCHANGED <<findVars, watcherVars, supVars>>

\* deck.md includes s/b.md at start-up, so both directories have an observer
RaceFileSystems ==
    { f \in SupFileSystems : f[DECK].inc = << <<"a.md">>, <<"s", "b.md">> >> }

InitRace ==
    /\ fs \in RaceFileSystems
    /\ FindIdle
    /\ SupIdle
    /\ NewFileWatcher(Str(<<"deck.md">>))

NextRace ==
    \/ EditRoot
    \/ \E t \in Threads :
          \/ BeginCall(t) \/ CheckMain(t)
          \/ StoreOriginal(t) \/ StoreResolved(t) \/ StoreDirectories(t)
          \/ ReadOriginal(t) \/ ReadResolved(t) \/ SkipOrTouch(t)
          \/ TouchFails(t)

SpecRace == InitRace /\ [][NextRace]_vars

\* C13 (as claimed): a thread that has evaluated is_watched_file has read the
\* canonical table of the same snapshot as the original table it read, never
\* the original table of one recomputation with the canonical table of
\* another.
C13_NoHalfUpdatedTables ==
    \A t \in Threads :
        calls[t].pc = "skip" => calls[t].resolved_read = calls[t].resolved_then

----------------------------------------------------------------------------
(* Failures while the session runs *)

\* C14 (as claimed): when the subscription of one directory fails to start,
\* the session keeps running with a reduced watch set: while run_marp waits
\* for the renderer, every directory but the one that failed has a running
\* listener.
C14_DegradedWatchSet ==
    mpc = "wait" /\ opc = "died" =>
        Cardinality(OpenObservers) >= Cardinality(directories_to_watch) - 1

\* C15 (as claimed): a touch of the root that fails is not fatal to the
\* session: the listener that delivered the event keeps running, so that
\* later events of its directory are still routed.
C15_TouchFailureNonFatal ==
    \A t \in Threads : calls[t].pc # "dead"

----------------------------------------------------------------------------
(* Unreadable files in the traversal *)

\* everything reached from the spellings in new through files that open,
\* cycles or not
RECURSIVE ReachFrom(_, _, _)
ReachFrom(f, new, seen) ==
    IF new \subseteq seen THEN seen
    ELSE LET x == CHOOSE y \in new \ seen : TRUE
         IN ReachFrom(f, new \cup Includes(f, x), seen \cup {x})

Reachable(f, x) == ReachFrom(f, {x}, {})

\* some file the traversal comes to cannot be opened: it is missing, or not
\* readable
C16_Pre ==
    \E x \in Reachable(fs, filename) :
        LET p == Realpath(fs, FsPath(x)) IN
        p \notin DOMAIN fs \/ fs[p].kind = "none" \/ (fs[p].kind = "file" /\ ~fs[p].ok)

\* C16: when a file of the worklist cannot be read, find_includes still
\* returns, and everything the root reaches through files that can be read
\* is in what it returns: its spelling, its canonical path and its parent
\* directory.
C16_UnreadableSkipped ==
    /\ [](C16_Pre => <>(fpc = "done"))
    /\ [](C16_Pre /\ fpc = "done" =>
            \A x \in Reachable(fs, filename) :
                /\ x \in fi.original_files
                /\ Resolve(fs, x) \in fi.resolved_files
                /\ Parent(Resolve(fs, x)) \in fi.directories_to_watch)

\* a.md is missing or unreadable, and s/b.md, included next to it, was found
C16_Witness ==
    /\ fpc = "done"
    /\ fs[A].kind = "none" \/ (fs[A].kind = "file" /\ ~fs[A].ok)
    /\ Str(<<"a.md">>) \in fi.original_files
    /\ PathOf(B) \in fi.resolved_files
    /\ Parent(PathOf(B)) \in fi.directories_to_watch

----------------------------------------------------------------------------
(* What an event may change *)

\* C17: the three tables change only in a call of on_any_event that took its
\* event for the main file's and recomputed them; a filtered event, an
\* event that is dropped and one that touches the root leave them as they
\* were.
C17_TablesChangeOnRootEventOnly ==
    [][ tables' # tables =>
            /\ last'.refreshed
            /\ IsMainFile(last'.event_path, last'.resolved_event_path) ]_vars

\* an event of a watched file has touched the root and left alone tables that
\* a recomputation would have changed
C17_Witness ==
    /\ last.handled
    /\ ~last.refreshed
    /\ last.touches = 1
    /\ FindIncludes(fs, main_file_path).resolved # resolved_filenames

\* C18 (as claimed): an event whose path is, letter for letter, the spelling
\* under which a file other than the root is in original_filenames touches the
\* root, also when its canonical form is not in resolved_filenames.
C18_OriginalFormSuffices ==
    /\ Routed
    /\ ~RootEvent
    /\ \E x \in original_filenames : FsPath(x) = last.src_path
    /\ ~MatchesCanonical
    => last.touches = 1

----------------------------------------------------------------------------
(* The session: run_marp with its observers delivering events *)

\* the directories that have a running observer
Subscribed == {observers[i].dir : i \in {j \in OpenObservers : observers[j].st = "started"}}

\* a running observer reports an event of its directory, and on_any_event
\* handles it (lines 87-131)
Dispatch ==
    /\ mpc = "wait"
    /\ opc = "wait"
    /\ \E event \in [src_path : Entries, is_directory : BOOLEAN] :
          /\ PathOf(Dirname(event.src_path)) \in Subscribed
          /\ OnAnyEvent(event)
    /\ UNCHANGED <<findVars, main_file_path, main_file_resolved, pending, calls,
                   supVars>>

\* one input file
InitSession ==
    /\ InitSup
    /\ inputs_left = 1

NextSession == NextSup \/ Dispatch \/ EditRoot

SpecSession == InitSession /\ [][NextSession]_vars

\* C19 (as claimed): while the session runs with its observers set up, every
\* canonical path in resolved_filenames has its parent directory subscribed,
\* after any recomputation of the tables as before it.
C19_SubscriptionsCoverWatchSet ==
    mpc = "wait" /\ opc = "wait" =>
        \A p \in resolved_filenames : Parent(p) \in Subscribed

----------------------------------------------------------------------------
(* Touches and the events they produce *)

\* the path of the event a touch of the root produces: the file the touch
\* changes, as the observer of its directory reports it
TouchEventPath == Realpath(fs, FsPath(main_file_path))

\* C20 (as claimed): the event a touch of the root produces is handled as an
\* event of the root only and touches nothing, so that every touch is made
\* for an event of a watched file other than the root and the touches never
\* outnumber those events.
C20_NoTouchFeedback ==
    Routed /\ last.src_path = TouchEventPath => last.touches = 0

----------------------------------------------------------------------------
(* Edits of included files, and the events that follow them *)

\* the include lists an edit may leave in a file
EditLists(p) == IF p = B THEN WatchB ELSE WatchA

\* a watched file that is not the root: a regular file that the canonical
\* table holds (line 114 matches its events) and that the root's name does
\* not lead to
IsWatchedNonRoot(p) ==
    /\ fs[p].kind = "file"
    /\ PathOf(p) \in resolved_filenames
    /\ p # TouchEventPath

\* The user edits the include directives of a watched file other than the
\* root; the observer of its directory will report the file by its absolute
\* path.
EditInclude ==
    /\ \E p \in Locs :
          /\ IsWatchedNonRoot(p)
          /\ \E i \in EditLists(p) \ {fs[p].inc} :
                fs' = [fs EXCEPT ![p] = RegFile(i, fs[p].ok)]
          /\ pending' = pending \cup {p}
    /\ UNCHANGED <<findVars, main_file_path, main_file_resolved, tables, last,
                   calls, supVars>>

\* An observer delivers the pending event of p to on_any_event (lines
\* 87-125).  When the handler touches the root (line 131), the file the touch
\* changes gets an event of its own.
DeliverPending(p) ==
    /\ p \in pending
    /\ OnAnyEvent([src_path |-> p, is_directory |-> FALSE])
    /\ pending' = (pending \ {p}) \cup
                     (IF last'.touches = 1 THEN {TouchEventPath} ELSE {})
    /\ UNCHANGED <<findVars, main_file_path, main_file_resolved, calls,
                   supVars>>

\* the root is a regular file or a symlink to a.md; there is no other symlink
EditFileSystems ==
    { f \in WatchFileSystems :
        /\ f[L].kind = "none"
        /\ f[DECK].kind = "file" => f[DECK].inc # <<>> }

InitEdit ==
    /\ fs \in EditFileSystems
    /\ FindIdle
    /\ SupIdle
    /\ NewFileWatcher(Str(<<"deck.md">>))

NextEdit ==
    \/ EditInclude
    \/ \E p \in Locs : DeliverPending(p)
    \/ ReplaceByRename

\* every pending event is eventually delivered
DeliveryFairness == \A p \in Locs : WF_vars(DeliverPending(p))

SpecEdit == InitEdit /\ [][NextEdit]_vars /\ DeliveryFairness

\* the tables are what find_includes yields for the files as they are now
TablesCurrent ==
    LET now == FindIncludes(fs, main_file_path) IN
    /\ resolved_filenames = now.resolved
    /\ directories_to_watch = now.dirs
    /\ {FsPath(x) : x \in original_filenames} =
          {FsPath(x) : x \in now.original}

\* every event has been delivered, the last of them was handled, and the root
\* is the file it was when that event was handled: an edit made since would
\* have left its event pending, so the files are as the last call saw them
Quiescent ==
    /\ pending = {}
    /\ Routed
    /\ last.root_now = Resolve(fs, main_file_path)

\* C21 (as claimed): when a watched file other than the root has changed its
\* include list and every event has been delivered (that file's, and the
\* root's that the touch produced), the tables equal the include closure of
\* the files as they are.  A run may stay in such a state for ever, so that
\* "eventually equal" asks for the equality there.
C21_EditReachesTables == Quiescent => TablesCurrent
====
